---- MODULE Spec2Model ----
(***************************************************************************)
(* A model of zdevito/custom_loader: the extension-load hook               *)
(* (find_shared_function.cpp), the per-instance private library tree and   *)
(* the driver (main.cpp) and the runner (python_runner.cpp).               *)
(*                                                                         *)
(* loader.h / the loader implementation is not among the sources; its      *)
(* operations (create, add_search_library, load, sym) are modelled from    *)
(* the specification, sections 4.1 to 4.3.                                 *)
(***************************************************************************)
EXTENDS Integers, Sequences, FiniteSets, TLC

----------------------------------------------------------------------------
(* Bounds *)

\* The number of extension-load requests the hosted runtime issues in a run.
MaxExtLoads == 2

----------------------------------------------------------------------------
(* Handles, addresses, errors *)

\* SystemLibrary::create(): the one handle over the process-wide table.
GLOBAL == 0

\* A null CustomLibraryPtr: the zero-initialised the_python_library.
NULL == -1

\* An address is <<owning library, symbol>>; an empty optional is ABSENT.
ABSENT == <<NULL, "">>

\* What a call through a null handle produces.
CRASH == <<NULL, "SIGSEGV">>

NoError == [kind |-> "none", symbol |-> "", requester |-> ""]

LinkError(s, p) == [kind |-> "LinkError", symbol |-> s, requester |-> p]

\* std::optional::value() on an empty optional.
bad_optional_access ==
  [kind |-> "bad_optional_access", symbol |-> "", requester |-> ""]

\* py::error_already_set thrown by py::exec.
error_already_set ==
  [kind |-> "error_already_set", symbol |-> "", requester |-> ""]

----------------------------------------------------------------------------
(* The loadable objects: paths, imports in enumeration order, exports *)

SHIM_SO == "libfind_shared_function.so"

PYTHON_SO_PATH == "libpython.so"

RUNNER_SO == "libpython_runner.so"

\* What the executable and the normally loaded system libraries define.
BaseGlobal ==
  {"malloc", "std::cout", "SystemLibrary::create", "CustomLibrary::create"}

\* What a globally loaded copy of the hosted runtime would define too.
PyGlobal ==
  {"Py_Initialize", "PyEval_SaveThread", "PyGILState_Ensure",
   "PyModule_Create", "_PyImport_FindSharedFuncptr"}

GlobalSyms(gp) == BaseGlobal \cup (IF gp THEN PyGlobal ELSE {})

\* The three extension objects the hosted runtime may ask for.
ExtPaths == {"_regex.so", "extra.so", "broken.so"}

Imports(path) ==
  CASE path = SHIM_SO ->
         <<"SystemLibrary::create", "CustomLibrary::create", "std::cout">>
    [] path = PYTHON_SO_PATH -> <<"_PyImport_FindSharedFuncptr", "malloc">>
    [] path = RUNNER_SO ->
         <<"Py_Initialize", "PyEval_SaveThread", "PyGILState_Ensure">>
    [] path = "_regex.so" -> <<"PyModule_Create", "malloc">>
    [] path = "extra.so" -> <<"malloc">>
    [] path = "broken.so" -> <<"malloc", "missing_one", "missing_two">>
    [] path = "dep.so" -> <<"malloc", "regex_match">>
    [] OTHER -> <<>>

Exports(path) ==
  CASE path = SHIM_SO ->
         {"_PyImport_FindSharedFuncptr", "the_python_library", "loaded"}
    [] path = PYTHON_SO_PATH ->
         {"Py_Initialize", "PyEval_SaveThread", "PyGILState_Ensure",
          "PyModule_Create"}
    [] path = RUNNER_SO -> {"run"}
    [] path = "_regex.so" -> {"PyInit__regex", "regex_match"}
    [] path = "extra.so" -> {"PyInit_extra"}
    [] path = "broken.so" -> {"PyInit_broken"}
    [] path = "dep.so" -> {"PyInit_dep"}
    [] OTHER -> {}

----------------------------------------------------------------------------
(* The loader, from the specification (4.1 - 4.3) *)

\* create(path): opened, neither mapped nor linked.
create(path) ==
  [path |-> path, chain |-> <<>>, state |-> "created", bind |-> <<>>,
   err |-> NoError]

\* addSearchLibrary(handle): appends; only valid before load.
add_search_library(L, id, h) ==
  IF L[id].state = "loaded"
  THEN [L EXCEPT ![id].err =
          [kind |-> "ConfigurationError", symbol |-> "",
           requester |-> L[id].path]]
  ELSE [L EXCEPT ![id].chain = Append(@, h)]

\* sym(name): one of the handle's own exports, or absence.
sym(L, gp, h, name) ==
  IF h = GLOBAL
  THEN (IF name \in GlobalSyms(gp) THEN <<GLOBAL, name>> ELSE ABSENT)
  ELSE IF L[h].state = "loaded" /\ name \in Exports(L[h].path)
       THEN <<h, name>>
       ELSE ABSENT

\* 4.3: the chain in insertion order, the first member that answers.
RECURSIVE ResolveFrom(_, _, _, _, _)
ResolveFrom(L, gp, chain, k, s) ==
  IF k > Len(chain) THEN ABSENT
  ELSE IF chain[k] = NULL THEN CRASH
  ELSE IF sym(L, gp, chain[k], s) # ABSENT THEN sym(L, gp, chain[k], s)
  ELSE ResolveFrom(L, gp, chain, k + 1, s)

Resolve(L, gp, id, s) == ResolveFrom(L, gp, L[id].chain, 1, s)

\* A variant of FirstUnresolved: the last unanswered import instead.
FirstUnresolvedLast(L, gp, id) ==
  LET imps == Imports(L[id].path)
      bad == {k \in 1..Len(imps) :
                ResolveFrom(L, gp, L[id].chain, 1, imps[k]) \in {ABSENT, CRASH}}
  IN IF bad = {} THEN 0 ELSE CHOOSE k \in bad : \A j \in bad : k >= j

\* The first import, in enumeration order, the chain does not answer (0: none).
FirstUnresolved(L, gp, id) ==
  LET imps == Imports(L[id].path)
      bad == {k \in 1..Len(imps) :
                Resolve(L, gp, id, imps[k]) \in {ABSENT, CRASH}}
  IN IF bad = {} THEN 0 ELSE CHOOSE k \in bad : \A j \in bad : k <= j

\* load(): every import resolved and every export activated, or a LinkError.
load(L, gp, id) ==
  LET imps == Imports(L[id].path)
      bad == FirstUnresolved(L, gp, id)
  IN IF L[id].state # "created"
     THEN [L EXCEPT ![id].err =
             [kind |-> "UsageError", symbol |-> "",
              requester |-> L[id].path]]
     ELSE IF bad = 0
     THEN [L EXCEPT ![id].state = "loaded",
                    ![id].bind =
                       [k \in 1..Len(imps) |-> Resolve(L, gp, id, imps[k])]]
     ELSE IF Resolve(L, gp, id, imps[bad]) = CRASH
     THEN [L EXCEPT ![id].state = "crashed"]
     ELSE [L EXCEPT ![id].state = "failed",
                    ![id].err = LinkError(imps[bad], L[id].path)]

\* The address an import of a loaded library was bound to.
BoundTo(L, id, s) ==
  LET imps == Imports(L[id].path)
  IN IF L[id].state = "loaded" /\ \E k \in 1..Len(imps) : imps[k] = s
     THEN L[id].bind[CHOOSE k \in 1..Len(imps) : imps[k] = s]
     ELSE ABSENT

----------------------------------------------------------------------------
(* The program: main.cpp, python_runner.cpp, find_shared_function.cpp *)

Instances == {"a", "b"}

Threads == {"main", "t0", "t1", "t2", "t3"}

\* main(), statement by statement.
MainProgram ==
  << [op |-> "ctor", inst |-> "a", thread |-> "main"],
     [op |-> "ctor", inst |-> "b", thread |-> "main"],
     [op |-> "run", inst |-> "a", thread |-> "main"],
     [op |-> "run", inst |-> "b", thread |-> "main"],
     [op |-> "spawn", inst |-> "a", thread |-> "t0"],
     [op |-> "spawn", inst |-> "a", thread |-> "t1"],
     [op |-> "join", inst |-> "a", thread |-> "t0"],
     [op |-> "join", inst |-> "a", thread |-> "t1"],
     [op |-> "spawn", inst |-> "a", thread |-> "t2"],
     [op |-> "spawn", inst |-> "b", thread |-> "t3"],
     [op |-> "join", inst |-> "a", thread |-> "t2"],
     [op |-> "join", inst |-> "b", thread |-> "t3"],
     [op |-> "run", inst |-> "a", thread |-> "main"],
     [op |-> "return", inst |-> "a", thread |-> "main"] >>

\* A variant of CtorOrder: the bind of lines 20-21 after the runner's load.
CtorOrderBindLast ==
  << "L11", "L12", "L13", "L15", "L16", "L17", "L18", "L23", "L24", "L25",
     "L26", "L20" >>

\* A variant of CtorOrder: the runtime library's load (line 18) last.
CtorOrderPythonLast ==
  << "L11", "L12", "L13", "L15", "L16", "L17", "L20", "L23", "L24", "L25",
     "L26", "L18" >>

\* The statements of PythonAPI::PythonAPI(), by line, in program order.
CtorOrder ==
  << "L11", "L12", "L13", "L15", "L16", "L17", "L18", "L20", "L23", "L24",
     "L25", "L26" >>

\* The statement after `line`; "end" after the last.
NextLine(line) ==
  LET k == CHOOSE j \in 1..Len(CtorOrder) : CtorOrder[j] = line
  IN IF k < Len(CtorOrder) THEN CtorOrder[k + 1] ELSE "end"

\* What the hosted runtime passes to _PyImport_FindSharedFuncptr.
Requests ==
  { [prefix |-> "PyInit", shortname |-> "_regex", pathname |-> "_regex.so"],
    [prefix |-> "PyInit", shortname |-> "ext", pathname |-> "extra.so"],
    [prefix |-> "PyInit", shortname |-> "broken", pathname |-> "broken.so"] }

NoRequest == [prefix |-> "", shortname |-> "", pathname |-> ""]

NoCall == [shim |-> NULL, req |-> NoRequest, lib |-> NULL, result |-> ABSENT]

VARIABLES
  gp,                     \* the process-wide table also defines the runtime
  libs,                   \* every CustomLibrary created, by id
  mem,                    \* the data cells of the loaded images, by address
  find_shared_function_,  \* PythonAPI members, per instance
  python_,
  python_runner_,
  mpc,                    \* main's statement
  bpc,                    \* the line of the PythonAPI constructor
  rpc,                    \* per thread: where it is in run() and the hook
  rinst,                  \* per spawned thread: the instance its lambda runs
  gil,                    \* per initialised runtime: the thread holding it
  hk,                     \* per thread: the locals of the hook call
  exc,                    \* per thread: the exception in flight
  extLoads,               \* extension-load requests issued so far
  terminated,             \* std::terminate was called
  everBound                 \* history: every <<cell, library>> ever bound

vars ==
  << gp, libs, mem, find_shared_function_, python_, python_runner_, mpc, bpc,
     rpc, rinst, gil, hk, exc, extLoads, terminated, everBound >>

\* What no statement but the bind of main.cpp:21 touches.
env == << gp, everBound >>

members == << find_shared_function_, python_, python_runner_ >>

threadVars == << rpc, rinst, gil, hk, exc, extLoads >>

Init ==
  /\ gp \in BOOLEAN
  /\ libs = <<>>
  /\ mem = <<>>
  /\ find_shared_function_ = [i \in Instances |-> NULL]
  /\ python_ = [i \in Instances |-> NULL]
  /\ python_runner_ = [i \in Instances |-> NULL]
  /\ mpc = 1
  /\ bpc = CtorOrder[1]
  /\ rpc = [t \in Threads |-> "idle"]
  /\ rinst = [t \in Threads |-> "a"]
  /\ gil = <<>>
  /\ hk = [t \in Threads |-> NoCall]
  /\ exc = [t \in Threads |-> NoError]
  /\ extLoads = 0
  /\ terminated = FALSE
  /\ everBound = {}

Running == ~terminated /\ mpc <= Len(MainProgram)

Stmt == MainProgram[IF mpc <= Len(MainProgram) THEN mpc ELSE Len(MainProgram)]

InCtor(line) ==
  Running /\ Stmt.op = "ctor" /\ bpc = line /\ rpc["main"] = "idle"

InstOf(t) == IF t = "main" THEN Stmt.inst ELSE rinst[t]

\* The data segment a freshly mapped image of `path` starts with.
DataSegment(id, path) ==
  IF path = SHIM_SO
  THEN (<<id, "the_python_library">> :> NULL) @@ (<<id, "loaded">> :> <<>>)
  ELSE <<>>

\* A constructor line "x = CustomLibrary::create(path)".
CtorCreate(line, path) ==
  /\ InCtor(line)
  /\ libs' = Append(libs, create(path))
  /\ bpc' = NextLine(line)

\* A constructor line "x->add_search_library(h)".
CtorAdd(line, id, h) ==
  /\ InCtor(line)
  /\ libs' = add_search_library(libs, id, h)
  /\ bpc' = NextLine(line)
  /\ UNCHANGED << env, mem, members, mpc, threadVars, terminated >>

\* A constructor line "x->load()": a LinkError leaves main() uncaught.
CtorLoad(line, id) ==
  /\ InCtor(line)
  /\ libs' = load(libs, gp, id)
  /\ IF libs'[id].state = "loaded"
     THEN /\ mem' = DataSegment(id, libs[id].path) @@ mem
          /\ terminated' = FALSE
     ELSE /\ terminated' = TRUE
          /\ mem' = mem

\* A variant of PythonChain: the global table ahead of the shim.
PythonChainGlobalFirst(i) == << GLOBAL, find_shared_function_[i] >>

\* The chains the constructor gives its three libraries (lines 12, 16-17,
\* 24-25), in the order of the add_search_library calls.
ShimChain(i) == << GLOBAL >>

PythonChain(i) == << find_shared_function_[i], GLOBAL >>

RunnerChain(i) == << python_[i], GLOBAL >>

Ctor11 ==
  /\ CtorCreate("L11", SHIM_SO)
  /\ find_shared_function_' =
       [find_shared_function_ EXCEPT ![Stmt.inst] = Len(libs) + 1]
  /\ UNCHANGED << env, mem, python_, python_runner_, mpc, threadVars,
                  terminated >>

Ctor12 ==
  CtorAdd("L12", find_shared_function_[Stmt.inst], ShimChain(Stmt.inst)[1])

Ctor13 ==
  /\ CtorLoad("L13", find_shared_function_[Stmt.inst])
  /\ bpc' = NextLine("L13")
  /\ UNCHANGED << env, members, mpc, threadVars >>

Ctor15 ==
  /\ CtorCreate("L15", PYTHON_SO_PATH)
  /\ python_' = [python_ EXCEPT ![Stmt.inst] = Len(libs) + 1]
  /\ UNCHANGED << env, mem, find_shared_function_, python_runner_, mpc,
                  threadVars, terminated >>

Ctor16 == CtorAdd("L16", python_[Stmt.inst], PythonChain(Stmt.inst)[1])

Ctor17 == CtorAdd("L17", python_[Stmt.inst], PythonChain(Stmt.inst)[2])

Ctor18 ==
  /\ CtorLoad("L18", python_[Stmt.inst])
  /\ bpc' = NextLine("L18")
  /\ UNCHANGED << env, members, mpc, threadVars >>

\* A variant of BindTarget: one shim shared by every instance.
BindTargetShared == find_shared_function_["a"]

\* The library whose the_python_library the constructor writes (line 20).
BindTarget == find_shared_function_[Stmt.inst]

\* Lines 20-21: *sym("the_python_library").value() = python_.
Ctor20 ==
  /\ InCtor("L20")
  /\ LET ref == sym(libs, gp, BindTarget, "the_python_library")
     IN IF ref = ABSENT
        THEN /\ terminated' = TRUE
             /\ exc' = [exc EXCEPT !["main"] = bad_optional_access]
             /\ UNCHANGED << mem, bpc, everBound >>
        ELSE /\ mem' = [mem EXCEPT ![ref] = python_[Stmt.inst]]
             /\ everBound' = everBound \cup {<< ref, python_[Stmt.inst] >>}
             /\ bpc' = NextLine("L20")
             /\ UNCHANGED << terminated, exc >>
  /\ UNCHANGED << gp, libs, members, mpc, rpc, rinst, gil, hk, extLoads >>

Ctor23 ==
  /\ CtorCreate("L23", RUNNER_SO)
  /\ python_runner_' = [python_runner_ EXCEPT ![Stmt.inst] = Len(libs) + 1]
  /\ UNCHANGED << env, mem, find_shared_function_, python_, mpc, threadVars,
                  terminated >>

Ctor24 == CtorAdd("L24", python_runner_[Stmt.inst], RunnerChain(Stmt.inst)[1])

Ctor25 == CtorAdd("L25", python_runner_[Stmt.inst], RunnerChain(Stmt.inst)[2])

\* The runtime whose lock the runner of instance i takes: the owner of the
\* definition its PyGILState_Ensure import was bound to.
RuntimeOf(i) == BoundTo(libs, python_runner_[i], "PyGILState_Ensure")[1]

\* Line 26, and with it the start of the static PythonGuard
\* (python_runner.cpp:11-15): Py_Initialize leaves the calling thread holding
\* the runtime's lock, and py::exec("import threading") runs under it.
Ctor26 ==
  /\ CtorLoad("L26", python_runner_[Stmt.inst])
  /\ IF libs'[python_runner_[Stmt.inst]].state = "loaded"
     THEN LET rt == BoundTo(libs', python_runner_[Stmt.inst],
                            "Py_Initialize")[1]
          IN /\ gil' = (rt :> "main") @@ gil
             /\ rpc' = [rpc EXCEPT !["main"] = "exec"]
     ELSE UNCHANGED << gil, rpc >>
  /\ UNCHANGED << env, members, mpc, bpc, rinst, hk, exc, extLoads >>

\* python_runner.cpp:17: PyEval_SaveThread() ends the static initialiser, and
\* load() returns to the constructor.
GuardSaveThread ==
  /\ Running /\ Stmt.op = "ctor" /\ rpc["main"] = "ret"
  /\ gil' = [gil EXCEPT ![RuntimeOf(Stmt.inst)] = "none"]
  /\ rpc' = [rpc EXCEPT !["main"] = "idle"]
  /\ bpc' = NextLine(bpc)
  /\ UNCHANGED << env, libs, mem, members, mpc, rinst, hk, exc, extLoads,
                  terminated >>

\* The closing brace of the constructor: main goes on.
CtorEnd ==
  /\ InCtor("end")
  /\ bpc' = CtorOrder[1]
  /\ mpc' = mpc + 1
  /\ UNCHANGED << env, libs, mem, members, threadVars, terminated >>

----------------------------------------------------------------------------
(* PythonAPI::run (main.cpp:28-31) and run (python_runner.cpp:27-30) *)

\* main.cpp:55-80: std::thread t(...) starts the lambda.
Spawn ==
  /\ Running /\ Stmt.op = "spawn"
  /\ rpc' = [rpc EXCEPT ![Stmt.thread] = "call"]
  /\ rinst' = [rinst EXCEPT ![Stmt.thread] = Stmt.inst]
  /\ mpc' = mpc + 1
  /\ UNCHANGED << env, libs, mem, members, bpc, gil, hk, exc, extLoads,
                  terminated >>

\* t.join(): returns once the thread's lambda has returned.
Join ==
  /\ Running /\ Stmt.op = "join"
  /\ rpc[Stmt.thread] = "returned"
  /\ mpc' = mpc + 1
  /\ UNCHANGED << env, libs, mem, members, bpc, threadVars, terminated >>

\* main.cpp:29: python_runner_->sym("run").value(), then the call.
RunCall(t) ==
  /\ Running
  /\ IF t = "main" THEN Stmt.op = "run" /\ rpc[t] = "idle"
                   ELSE rpc[t] = "call"
  /\ IF sym(libs, gp, python_runner_[InstOf(t)], "run") = ABSENT
     THEN /\ rpc' = [rpc EXCEPT ![t] = "uncaught"]
          /\ exc' = [exc EXCEPT ![t] = bad_optional_access]
     ELSE /\ rpc' = [rpc EXCEPT ![t] = "acquire"]
          /\ exc' = exc
  /\ UNCHANGED << env, libs, mem, members, mpc, bpc, rinst, gil, hk, extLoads,
                  terminated >>

\* A variant of LockFree: the guard never waits.
LockFreeAlways(t) == TRUE

\* No thread holds the lock of the runtime thread t's run() is bound to.
LockFree(t) == gil[RuntimeOf(InstOf(t))] = "none"

\* python_runner.cpp:28: py::gil_scoped_acquire guard_ blocks until the
\* runtime's lock is free.
Acquire(t) ==
  /\ Running /\ rpc[t] = "acquire"
  /\ LockFree(t)
  /\ gil' = [gil EXCEPT ![RuntimeOf(InstOf(t))] = t]
  /\ rpc' = [rpc EXCEPT ![t] = "exec"]
  /\ UNCHANGED << env, libs, mem, members, mpc, bpc, rinst, hk, exc, extLoads,
                  terminated >>

\* A variant of GuardRelease: the lock is left held.
GuardReleaseNone(t) == gil

\* The lock after guard_'s destructor has run in thread t.
GuardRelease(t) == [gil EXCEPT ![RuntimeOf(InstOf(t))] = "none"]

\* python_runner.cpp:29: py::exec(code) returns.
ExecFinish(t) ==
  /\ Running /\ rpc[t] = "exec"
  /\ rpc' = [rpc EXCEPT ![t] = "ret"]
  /\ UNCHANGED << env, libs, mem, members, mpc, bpc, rinst, gil, hk, exc,
                  extLoads, terminated >>

\* python_runner.cpp:29: the code raises; py::exec throws.
ExecRaise(t) ==
  /\ Running /\ rpc[t] = "exec"
  /\ rpc' = [rpc EXCEPT ![t] = "throwing"]
  /\ exc' = [exc EXCEPT ![t] = error_already_set]
  /\ UNCHANGED << env, libs, mem, members, mpc, bpc, rinst, gil, hk, extLoads,
                  terminated >>

\* python_runner.cpp:30: the closing brace; guard_ is destroyed, run returns
\* to PythonAPI::run and that to main or to the thread's lambda.
RunReturn(t) ==
  /\ Running /\ rpc[t] = "ret"
  /\ IF t = "main" THEN Stmt.op = "run" ELSE TRUE
  /\ gil' = GuardRelease(t)
  /\ IF t = "main"
     THEN /\ rpc' = [rpc EXCEPT ![t] = "idle"]
          /\ mpc' = mpc + 1
     ELSE /\ rpc' = [rpc EXCEPT ![t] = "returned"]
          /\ mpc' = mpc
  /\ UNCHANGED << env, libs, mem, members, bpc, rinst, hk, exc, extLoads,
                  terminated >>

\* An exception leaves run: guard_ is destroyed on the way out. Inside the
\* static PythonGuard's constructor there is no guard_ to destroy.
Unwind(t) ==
  /\ Running /\ rpc[t] = "throwing"
  /\ gil' = IF t = "main" /\ Stmt.op = "ctor" THEN gil ELSE GuardRelease(t)
  /\ rpc' = [rpc EXCEPT ![t] = "uncaught"]
  /\ UNCHANGED << env, libs, mem, members, mpc, bpc, rinst, hk, exc, extLoads,
                  terminated >>

\* No handler anywhere in main.cpp: std::terminate, after the stack was
\* unwound ("uncaught") or without unwinding it ("throwing").
Terminate(t) ==
  /\ Running /\ rpc[t] \in {"throwing", "uncaught"}
  /\ terminated' = TRUE
  /\ UNCHANGED << env, libs, mem, members, mpc, bpc, threadVars >>

\* main.cpp:81: main returns.
MainReturn ==
  /\ Running /\ Stmt.op = "return"
  /\ mpc' = mpc + 1
  /\ UNCHANGED << env, libs, mem, members, bpc, threadVars, terminated >>

----------------------------------------------------------------------------
(* _PyImport_FindSharedFuncptr (find_shared_function.cpp:20-34) *)

\* A variant of HookOf: one hook for the process, that of the first instance.
HookOfFirstInstance(t) ==
  << find_shared_function_["a"], "_PyImport_FindSharedFuncptr" >>

\* The definition the runtime running thread t's code calls to load an
\* extension: what its _PyImport_FindSharedFuncptr import was bound to.
HookOf(t) ==
  LET rt == RuntimeOf(InstOf(t))
  IN IF rt = GLOBAL THEN << GLOBAL, "_PyImport_FindSharedFuncptr" >>
     ELSE BoundTo(libs, rt, "_PyImport_FindSharedFuncptr")

\* The hosted runtime imports an extension module while executing code.
ExecImport(t, req) ==
  /\ Running /\ rpc[t] = "exec"
  /\ extLoads < MaxExtLoads
  /\ extLoads' = extLoads + 1
  /\ IF HookOf(t)[1] = GLOBAL
     THEN UNCHANGED << rpc, hk >>
     ELSE /\ rpc' = [rpc EXCEPT ![t] = "H26"]
          /\ hk' = [hk EXCEPT ![t] = [shim |-> HookOf(t)[1], req |-> req,
                                      lib |-> NULL, result |-> ABSENT]]
  /\ UNCHANGED << env, libs, mem, members, mpc, bpc, rinst, gil, exc,
                  terminated >>

InHook(t, line) == Running /\ rpc[t] = line

\* A variant of HookOrder: line 32 ahead of lines 29 to 31.
HookOrderRegisterFirst == << "H26", "H27", "H28", "H32", "H29", "H30", "H33" >>

\* A variant of HookOrder: line 29 ahead of line 28.
HookOrderLoadEarly == << "H26", "H27", "H29", "H28", "H30", "H32", "H33" >>

\* The statements of _PyImport_FindSharedFuncptr in program order ("H30"
\* stands for lines 30-31).
HookOrder == << "H26", "H27", "H28", "H29", "H30", "H32", "H33" >>

\* The statement after `line` of the hook.
HookNext(line) ==
  LET k == CHOOSE j \in 1..Len(HookOrder) : HookOrder[j] = line
  IN IF k < Len(HookOrder) THEN HookOrder[k + 1] ELSE "exec"

\* Line 26: auto lib = CustomLibrary::create(pathname).
Hook26(t) ==
  /\ InHook(t, "H26")
  /\ libs' = Append(libs, create(hk[t].req.pathname))
  /\ hk' = [hk EXCEPT ![t].lib = Len(libs) + 1]
  /\ rpc' = [rpc EXCEPT ![t] = HookNext("H26")]
  /\ UNCHANGED << env, mem, members, mpc, bpc, rinst, gil, exc, extLoads,
                  terminated >>

\* A variant of HookChain: the first instance's runtime library, whatever
\* the cell holds at the call.
HookChainFirstInstance(t) == << GLOBAL, python_["a"] >>

\* A variant of HookChain: the instance library ahead of the global one.
HookChainInstanceFirst(t) ==
  << mem[<<hk[t].shim, "the_python_library">>], GLOBAL >>

\* The handles lines 27 and 28 append, in order: the second is
\* the_python_library of the shim's own image, read at the call.
HookChain(t) == << GLOBAL, mem[<<hk[t].shim, "the_python_library">>] >>

\* Line 27: lib->add_search_library(SystemLibrary::create()).
Hook27(t) ==
  /\ InHook(t, "H27")
  /\ libs' = add_search_library(libs, hk[t].lib, HookChain(t)[1])
  /\ rpc' = [rpc EXCEPT ![t] = HookNext("H27")]
  /\ UNCHANGED << env, mem, members, mpc, bpc, rinst, gil, hk, exc, extLoads,
                  terminated >>

\* Line 28: lib->add_search_library(the_python_library).
Hook28(t) ==
  /\ InHook(t, "H28")
  /\ libs' = add_search_library(libs, hk[t].lib, HookChain(t)[2])
  /\ rpc' = [rpc EXCEPT ![t] = HookNext("H28")]
  /\ UNCHANGED << env, mem, members, mpc, bpc, rinst, gil, hk, exc, extLoads,
                  terminated >>

\* Line 29: lib->load(); a LinkError leaves the function.
Hook29(t) ==
  /\ InHook(t, "H29")
  /\ libs' = load(libs, gp, hk[t].lib)
  /\ CASE libs'[hk[t].lib].state = "loaded" ->
            /\ rpc' = [rpc EXCEPT ![t] = HookNext("H29")]
            /\ UNCHANGED << exc, terminated >>
       [] libs'[hk[t].lib].state = "failed" ->
            /\ rpc' = [rpc EXCEPT ![t] = "throwing"]
            /\ exc' = [exc EXCEPT ![t] = libs'[hk[t].lib].err]
            /\ UNCHANGED terminated
       [] OTHER ->
            /\ terminated' = TRUE
            /\ UNCHANGED << rpc, exc >>
  /\ UNCHANGED << env, mem, members, mpc, bpc, rinst, gil, hk, extLoads >>

\* Line 30: fmt::format("{}_{}", prefix, shortname).
init_name(req) == req.prefix \o "_" \o req.shortname

\* Line 31: lib->sym(init_name).value(); an empty optional throws.
Hook31(t) ==
  /\ InHook(t, "H30")
  /\ LET r == sym(libs, gp, hk[t].lib, init_name(hk[t].req))
     IN IF r = ABSENT
        THEN /\ rpc' = [rpc EXCEPT ![t] = "throwing"]
             /\ exc' = [exc EXCEPT ![t] = bad_optional_access]
             /\ hk' = hk
        ELSE /\ rpc' = [rpc EXCEPT ![t] = HookNext("H30")]
             /\ hk' = [hk EXCEPT ![t].result = r]
             /\ exc' = exc
  /\ UNCHANGED << env, libs, mem, members, mpc, bpc, rinst, gil, extLoads,
                  terminated >>

\* A variant of Emplaced: the vector holds only the newest library.
EmplacedOnly(t) == << hk[t].lib >>

\* The vector `loaded` of the shim's own image after line 32.
Emplaced(t) == Append(mem[<<hk[t].shim, "loaded">>], hk[t].lib)

\* Line 32: loaded->emplace_back(std::move(lib)).
Hook32(t) ==
  /\ InHook(t, "H32")
  /\ mem' = [mem EXCEPT ![<<hk[t].shim, "loaded">>] = Emplaced(t)]
  /\ rpc' = [rpc EXCEPT ![t] = HookNext("H32")]
  /\ UNCHANGED << env, libs, members, mpc, bpc, rinst, gil, hk, exc, extLoads,
                  terminated >>

\* Line 33: return result; the runtime goes on executing.
Hook33(t) ==
  /\ InHook(t, "H33")
  /\ rpc' = [rpc EXCEPT ![t] = HookNext("H33")]
  /\ hk' = [hk EXCEPT ![t] = NoCall]
  /\ UNCHANGED << env, libs, mem, members, mpc, bpc, rinst, gil, exc,
                  extLoads, terminated >>

----------------------------------------------------------------------------

Next ==
  \/ Ctor11 \/ Ctor12 \/ Ctor13 \/ Ctor15 \/ Ctor16 \/ Ctor17 \/ Ctor18
  \/ Ctor20 \/ Ctor23 \/ Ctor24 \/ Ctor25 \/ Ctor26
  \/ GuardSaveThread \/ CtorEnd \/ Spawn \/ Join \/ MainReturn
  \/ \E t \in Threads :
       \/ RunCall(t) \/ Acquire(t) \/ ExecFinish(t) \/ ExecRaise(t)
       \/ RunReturn(t) \/ Unwind(t) \/ Terminate(t)
       \/ Hook26(t) \/ Hook27(t) \/ Hook28(t) \/ Hook29(t) \/ Hook31(t)
       \/ Hook32(t) \/ Hook33(t)
       \/ \E req \in Requests : ExecImport(t, req)

Spec == Init /\ [][Next]_vars

\* Every runnable thread is eventually scheduled.
SpecFair == Spec /\ WF_vars(Next)

----------------------------------------------------------------------------
(* Properties *)

HookLines == {"H26", "H27", "H28", "H29", "H30", "H32", "H33"}

\* The current-instance cell of the shim thread t's hook call runs in.
CellOf(t) == mem[<<hk[t].shim, "the_python_library">>]

\* C1: whenever a hook call is about to run lib->load() (line 29), the chain
\* of its new library is exactly <<GlobalLibrary, current instance library>>:
\* two members, in that order.
C1_ChainAtLoad ==
  \A t \in Threads :
    rpc[t] = "H29" =>
      /\ Len(libs[hk[t].lib].chain) = 2
      /\ libs[hk[t].lib].chain[1] = GLOBAL
      /\ libs[hk[t].lib].chain[2] = CellOf(t)
      /\ libs[hk[t].lib].state = "created"

\* A hook call of instance b stands before load() with the chain
\* <<Global, b's runtime library>>.
C1_Witness ==
  \E t \in Threads :
    /\ rpc[t] = "H29"
    /\ InstOf(t) = "b"
    /\ libs[hk[t].lib].chain = << GLOBAL, python_["b"] >>
    /\ libs[python_["b"]].path = PYTHON_SO_PATH

\* The entry-point name of a request, spelled out.
DerivedName(req) == req.prefix \o "_" \o req.shortname

\* Thread t's hook call has thrown out of line 31 (load() had succeeded).
ThrownAtSym(t) ==
  /\ rpc[t] \in {"throwing", "uncaught"}
  /\ hk[t].lib # NULL
  /\ libs[hk[t].lib].state = "loaded"

\* C2: a hook call whose load() succeeded returns the address of the export
\* prefix_shortName when the object exports it, and otherwise fails with a
\* LinkError whose symbol is that derived name.
C2_EntryPointOrLinkError ==
  \A t \in Threads :
    /\ rpc[t] = "H33" =>
         hk[t].result = << hk[t].lib, DerivedName(hk[t].req) >>
    /\ ThrownAtSym(t) =>
         /\ exc[t].kind = "LinkError"
         /\ exc[t].symbol = DerivedName(hk[t].req)

\* Every symbol name of the model.
AllNames ==
  BaseGlobal \cup PyGlobal \cup {"missing_one", "missing_two"}
  \cup UNION {Exports(path) :
                path \in ExtPaths \cup {SHIM_SO, PYTHON_SO_PATH, RUNNER_SO,
                                        "dep.so"}}

\* Chain member h, as it is now, defines s.
Defines(h, s) ==
  IF h = GLOBAL THEN s \in GlobalSyms(gp)
  ELSE /\ h # NULL
       /\ libs[h].state = "loaded"
       /\ s \in Exports(libs[h].path)

\* Some member of library id's chain defines s.
Answered(id, s) ==
  \E j \in 1..Len(libs[id].chain) : Defines(libs[id].chain[j], s)

\* C5: load() is all-or-nothing. A loaded library has every import bound
\* through its chain and answers an address for every export; a library whose
\* load() failed carries a LinkError naming the first unanswered import (in
\* enumeration order) and its own path, and answers absence for every name,
\* as a library not yet loaded does.
C5_LoadAllOrNothing ==
  \A id \in 1..Len(libs) :
    LET lib == libs[id]
        imps == Imports(lib.path)
    IN /\ lib.state \in {"created", "loaded", "failed"}
       /\ lib.state = "loaded" =>
            /\ \A k \in 1..Len(imps) :
                 Answered(id, imps[k]) /\ lib.bind[k] # ABSENT
            /\ \A n \in Exports(lib.path) : sym(libs, gp, id, n) = <<id, n>>
       /\ lib.state = "failed" =>
            /\ \E k \in 1..Len(imps) :
                 /\ ~Answered(id, imps[k])
                 /\ \A j \in 1..(k - 1) : Answered(id, imps[j])
                 /\ lib.err = LinkError(imps[k], lib.path)
            /\ \A n \in AllNames : sym(libs, gp, id, n) = ABSENT
       /\ lib.state = "created" =>
            \A n \in AllNames : sym(libs, gp, id, n) = ABSENT

\* A load() has failed on the first of two unanswered imports, while other
\* libraries are loaded.
C5_Witness ==
  \E id \in 1..Len(libs) :
    /\ libs[id].state = "failed"
    /\ libs[id].err = LinkError("missing_one", "broken.so")
    /\ ~Answered(id, "missing_two")
    /\ \E other \in 1..Len(libs) :
         libs[other].state = "loaded" /\ libs[other].path = "_regex.so"

\* The address of instance i's copy of the_python_library.
Cell(i) == << find_shared_function_[i], "the_python_library" >>

\* C6: the value read through one instance's copy of the_python_library
\* changes only in that instance's own bind (main.cpp:20-21); the bind of the
\* other instance, writing its runtime library into its own copy, leaves it
\* as it was.
C6_CellsIsolated ==
  [][\A i \in Instances :
       (Cell(i) \in DOMAIN mem /\ mem'[Cell(i)] # mem[Cell(i)]) =>
         (Stmt.op = "ctor" /\ Stmt.inst = i /\ bpc = "L20")]_vars

\* Both instances are bound: two copies of the shim, each naming its own
\* instance's runtime library.
C6_Witness ==
  /\ Cell("a") \in DOMAIN mem /\ Cell("b") \in DOMAIN mem
  /\ Cell("a") # Cell("b")
  /\ libs[find_shared_function_["a"]].path
       = libs[find_shared_function_["b"]].path
  /\ mem[Cell("a")] = python_["a"]
  /\ mem[Cell("b")] = python_["b"]
  /\ python_["a"] # python_["b"]

\* C7: whenever the hook runs for an instance, the cell of the shim it runs
\* in names that instance's loaded runtime library (never null, never the
\* global handle); and the cell is bound once the instance's runner library
\* exists, so before the runner's load starts the runtime and before run().
C7_BoundBeforeUse ==
  /\ \A t \in Threads :
       rpc[t] \in HookLines =>
         /\ CellOf(t) # NULL
         /\ CellOf(t) # GLOBAL
         /\ CellOf(t) = python_[InstOf(t)]
         /\ libs[CellOf(t)].state = "loaded"
         /\ libs[CellOf(t)].path = PYTHON_SO_PATH
  /\ \A i \in Instances :
       python_runner_[i] # NULL =>
         /\ Cell(i) \in DOMAIN mem
         /\ mem[Cell(i)] = python_[i]
         /\ libs[python_[i]].state = "loaded"
  /\ \A i \in Instances :
       (Cell(i) \in DOMAIN mem /\ mem[Cell(i)] # NULL) =>
         libs[mem[Cell(i)]].state = "loaded"

\* The hook runs inside the runner's static initialiser, during the
\* constructor's last load(), and finds the cell bound.
C7_Witness ==
  /\ rpc["main"] = "H28"
  /\ Stmt.op = "ctor"
  /\ bpc = "L26"
  /\ CellOf("main") = python_[Stmt.inst]

\* Thread t is executing code of a runtime, or is leaving run with the
\* guard still alive.
Inside(t) == rpc[t] \in HookLines \cup {"exec", "ret", "throwing"}

Holds(t) == \E rt \in DOMAIN gil : gil[rt] = t

C8_Safety ==
  /\ \A t \in Threads :
       Inside(t) => gil[RuntimeOf(InstOf(t))] = t
  /\ \A t1, t2 \in Threads :
       (t1 # t2 /\ Inside(t1) /\ Inside(t2)) =>
         /\ RuntimeOf(InstOf(t1)) # RuntimeOf(InstOf(t2))
         /\ InstOf(t1) # InstOf(t2)
  /\ \A t \in Threads :
       rpc[t] \in {"idle", "call", "acquire", "returned"} => ~Holds(t)
  /\ \A t \in Threads :
       (rpc[t] = "uncaught" /\ ~(t = "main" /\ Stmt.op = "ctor")) => ~Holds(t)

\* C8: run() takes the instance's lock before the code runs and gives it
\* back on every way out, the failing one included: no two threads are
\* inside one instance at once, a thread whose run() has returned or failed
\* holds no lock, and a thread waiting for the lock gets it (or the process
\* has been terminated).
C8_LockDiscipline ==
  /\ []C8_Safety
  /\ \A t \in Threads :
       (rpc[t] = "acquire") ~> (rpc[t] # "acquire" \/ terminated)

\* One thread's run() on instance a has failed and released the lock, and
\* another thread is now executing inside a.
C8_Witness ==
  \E t1, t2 \in Threads \ {"main"} :
    /\ t1 # t2
    /\ rpc[t1] = "uncaught" /\ exc[t1] = error_already_set
    /\ rpc[t2] = "exec"
    /\ rinst[t1] = "a" /\ rinst[t2] = "a"
    /\ gil[RuntimeOf("a")] = t2

\* C9: in every library's chain (those of the tree and those the hook
\* creates) the private libraries come before GlobalLibrary, and an import
\* that a private chain member defines is never bound to the global table.
C9_SiblingsBeforeGlobal ==
  \A id \in 1..Len(libs) :
    /\ \A j, k \in 1..Len(libs[id].chain) :
         (libs[id].chain[j] = GLOBAL
            /\ libs[id].chain[k] \notin {GLOBAL, NULL}) => k < j
    /\ libs[id].state = "loaded" =>
         \A k \in 1..Len(Imports(libs[id].path)) :
           (\E j \in 1..Len(libs[id].chain) :
              /\ libs[id].chain[j] # GLOBAL
              /\ Defines(libs[id].chain[j], Imports(libs[id].path)[k]))
           => libs[id].bind[k][1] # GLOBAL

\* The loaded images of the hook shim: each has a vector `loaded` of its own.
ShimIds ==
  {id \in 1..Len(libs) :
     libs[id].path = SHIM_SO /\ <<id, "loaded">> \in DOMAIN mem}

Registry(s) == mem[<<s, "loaded">>]

Owned(s) == {Registry(s)[k] : k \in 1..Len(Registry(s))}

IsPrefix(p, q) ==
  Len(p) <= Len(q) /\ \A k \in 1..Len(p) : p[k] = q[k]

C10_RegistryInv ==
  /\ \A i \in Instances :
       (find_shared_function_[i] # NULL
          /\ libs[find_shared_function_[i]].state = "loaded")
       => find_shared_function_[i] \in ShimIds
  /\ \A s \in ShimIds :
       /\ Cardinality(Owned(s)) = Len(Registry(s))
       /\ \A id \in Owned(s) :
            /\ libs[id].path \in ExtPaths
            /\ libs[id].state = "loaded"
            /\ \E i \in Instances :
                 /\ find_shared_function_[i] = s
                 /\ libs[id].chain = << GLOBAL, python_[i] >>
  /\ \A s1, s2 \in ShimIds : s1 # s2 => Owned(s1) \cap Owned(s2) = {}
  /\ \A t \in Threads :
       rpc[t] = "H33" => hk[t].lib \in Owned(hk[t].shim)

C11_Registers(t, s) ==
  /\ rpc[t] = "H32" /\ rpc'[t] = "H33"
  /\ hk[t].shim = s
  /\ libs[hk[t].lib].state = "loaded"
  /\ hk[t].result = << hk[t].lib, init_name(hk[t].req) >>
  /\ hk[t].lib \notin Owned(s)
  /\ Registry(s)' = Append(Registry(s), hk[t].lib)

\* A hook call of thread t has failed: load() threw, or the lookup did.
C11_Failed(t) == rpc[t] \in {"throwing", "uncaught"} /\ hk[t].lib # NULL

\* C11: a registry changes only in line 32 of a hook call whose load() and
\* entry-point lookup both succeeded, by gaining that call's one library at
\* its end, before the call returns; a call that failed has registered
\* nothing, and a call at its return is registered exactly once.
C11_AppendOnSuccessOnly ==
  /\ [](\A t \in Threads :
          /\ C11_Failed(t) => \A s \in ShimIds : hk[t].lib \notin Owned(s)
          /\ rpc[t] = "H33" =>
               /\ Registry(hk[t].shim)[Len(Registry(hk[t].shim))] = hk[t].lib
               /\ Cardinality({k \in 1..Len(Registry(hk[t].shim)) :
                                 Registry(hk[t].shim)[k] = hk[t].lib}) = 1)
  /\ [][\A s \in ShimIds :
         Registry(s)' # Registry(s) => \E t \in Threads : C11_Registers(t, s)
      ]_vars

\* In one shim a call failed and registered nothing, and a later call of the
\* same shim succeeded and is registered.
C11_Witness ==
  \E t \in Threads :
    /\ C11_Failed(t)
    /\ hk[t].lib \notin Owned(hk[t].shim)
    /\ \E k \in 1..Len(Registry(hk[t].shim)) :
         Registry(hk[t].shim)[k] > hk[t].lib

\* The libraries of instance i's tree created so far.
Tree(i) ==
  {find_shared_function_[i], python_[i], python_runner_[i]} \ {NULL}

\* Every private member of library id's chain is loaded.
ChainLoaded(id) ==
  \A j \in 1..Len(libs[id].chain) :
    libs[id].chain[j] # GLOBAL =>
      /\ libs[id].chain[j] # NULL
      /\ libs[libs[id].chain[j]].state = "loaded"

\* The constructor of instance i has reached its closing brace, or returned.
Built(i) ==
  \/ \E k \in 1..(mpc - 1) :
       k <= Len(MainProgram)
         /\ MainProgram[k].op = "ctor" /\ MainProgram[k].inst = i
  \/ Running /\ Stmt.op = "ctor" /\ Stmt.inst = i /\ bpc = "end"

\* C12: a library of an instance's tree leaves the state "created" (its
\* load() runs) only in a step that finds every private member of its chain
\* loaded, and those members are libraries of the same tree; and when the
\* constructor is at its end the three libraries are loaded and the
\* instance's cell names its runtime library.
C12_DependencyOrder ==
  /\ [](\A i \in Instances :
          /\ \A id \in Tree(i) :
               /\ \A j \in 1..Len(libs[id].chain) :
                    libs[id].chain[j] \in Tree(i) \cup {GLOBAL}
               /\ libs[id].state # "created" => ChainLoaded(id)
          /\ Built(i) =>
               /\ Cardinality(Tree(i)) = 3
               /\ \A id \in Tree(i) : libs[id].state = "loaded"
               /\ mem[Cell(i)] = python_[i])
  /\ [][\A id \in 1..Len(libs) :
         (libs[id].state = "created" /\ libs'[id].state # "created")
           => ChainLoaded(id)]_vars

\* The constructor of b is at its end: shim, runtime library and runner were
\* loaded in that order, each with the one before it in its chain.
C12_Witness ==
  /\ Running /\ Stmt.op = "ctor" /\ Stmt.inst = "b" /\ bpc = "end"
  /\ libs[python_runner_["b"]].state = "loaded"
  /\ libs[python_runner_["b"]].chain = << python_["b"], GLOBAL >>
  /\ libs[python_["b"]].chain = << find_shared_function_["b"], GLOBAL >>
  /\ libs[find_shared_function_["b"]].chain = << GLOBAL >>
  /\ mem[Cell("b")] = python_["b"]

\* The load() of a hook call made by thread t's run() has failed.
LoadFailed(t) ==
  /\ hk[t].lib # NULL
  /\ libs[hk[t].lib].state = "failed"
  /\ ~(t = "main" /\ Stmt.op = "ctor")

\* C13: when load() fails inside a hook call made by a run(), the call looks
\* up no entry point and registers nothing, the failure is a LinkError, the
\* process is not terminated by it, and once it has left run() the thread
\* holds no lock (so that a later run() on the instance can take it).
C13_LinkFailureContained ==
  \A t \in Threads :
    LoadFailed(t) =>
      /\ hk[t].result = ABSENT
      /\ \A s \in ShimIds : hk[t].lib \notin Owned(s)
      /\ exc[t].kind = "LinkError"
      /\ rpc[t] = "uncaught" => ~Holds(t)
      /\ ~terminated

\* Lines of the hook at which the new library's chain is complete.
ChainBuilt == {"H29", "H30", "H32", "H33"}

\* The extension libraries: those the hook created.
ExtLibs == {id \in 1..Len(libs) : libs[id].path \in ExtPaths}

\* Extension library id was created on behalf of instance i: by a hook call
\* in flight of a thread running i's code, or registered in i's shim.
LoadedFor(id, i) ==
  \/ \E t \in Threads :
       rpc[t] \in HookLines /\ hk[t].lib = id /\ InstOf(t) = i
  \/ /\ find_shared_function_[i] \in ShimIds
     /\ id \in Owned(find_shared_function_[i])

\* C14: a hook call made by code of instance i runs in i's copy of the shim
\* and gives its library the chain <<Global, i's runtime library>>; no
\* extension library has the runtime library of another instance in its
\* chain, or an import bound to a definition of it.
C14_OwnRuntimeOnly ==
  /\ \A t \in Threads :
       rpc[t] \in HookLines =>
         /\ hk[t].shim = find_shared_function_[InstOf(t)]
         /\ rpc[t] \in ChainBuilt =>
              libs[hk[t].lib].chain = << GLOBAL, python_[InstOf(t)] >>
  /\ \A id \in ExtLibs : \A i, o \in Instances :
       (LoadedFor(id, i) /\ o # i) =>
         /\ \A j \in 1..Len(libs[id].chain) : libs[id].chain[j] # python_[o]
         /\ libs[id].state = "loaded" =>
              \A k \in 1..Len(libs[id].bind) : libs[id].bind[k][1] # python_[o]

\* Two threads are inside the hook at once, one for a and one for b, and
\* each has linked its extension against its own instance's runtime library.
C14_Witness ==
  \E t, u \in Threads \ {"main"} :
    /\ InstOf(t) = "a" /\ InstOf(u) = "b"
    /\ rpc[t] \in {"H30", "H32", "H33"} /\ rpc[u] \in {"H30", "H32", "H33"}
    /\ libs[hk[t].lib].path = "_regex.so"
    /\ libs[hk[u].lib].path = "_regex.so"
    /\ libs[hk[t].lib].bind[1] = << python_["a"], "PyModule_Create" >>
    /\ libs[hk[u].lib].bind[1] = << python_["b"], "PyModule_Create" >>

\* Thread t is about to call PythonAPI::run (main.cpp:29).
AtRunCall(t) ==
  /\ Running
  /\ IF t = "main" THEN Stmt.op = "run" /\ rpc[t] = "idle"
                   ELSE rpc[t] = "call"

\* The step is one add_search_library on library id, still unloaded.
IsAdd(id) ==
  /\ libs[id].state = "created" /\ libs'[id].state = "created"
  /\ Len(libs'[id].chain) = Len(libs[id].chain) + 1
  /\ SubSeq(libs'[id].chain, 1, Len(libs[id].chain)) = libs[id].chain

\* The step is the load() of library id: its first, with the chain it has.
IsLoad(id) ==
  /\ libs[id].state = "created" /\ libs'[id].state # "created"
  /\ libs'[id].chain = libs[id].chain
  /\ ChainLoaded(id)

\* C15: a library is changed only by chain insertions while it is unloaded
\* and by one load(), after which nothing changes it again (no insertion
\* after load(), no second load(): the loader has reported neither usage
\* error); and every sym() of the program (main.cpp:20 and 29,
\* find_shared_function.cpp:31, and the lookups of load() in the chain's
\* private members) is made on a library whose load() has succeeded.
C15_Lifecycle ==
  /\ [](/\ \A id \in 1..Len(libs) :
            libs[id].err.kind \notin {"ConfigurationError", "UsageError"}
        /\ InCtor("L20") => libs[BindTarget].state = "loaded"
        /\ \A t \in Threads :
             /\ rpc[t] = "H30" => libs[hk[t].lib].state = "loaded"
             /\ AtRunCall(t) =>
                  /\ python_runner_[InstOf(t)] # NULL
                  /\ libs[python_runner_[InstOf(t)]].state = "loaded")
  /\ [][\A id \in 1..Len(libs) :
         libs'[id] # libs[id] => (IsAdd(id) \/ IsLoad(id))]_vars

\* A hook call is at its return: its library was created, given two chain
\* members, loaded once and then queried; and a thread is about to query the
\* runner of a built instance.
C15_Witness ==
  /\ \E t \in Threads :
       /\ rpc[t] = "H33"
       /\ Len(libs[hk[t].lib].chain) = 2
       /\ libs[hk[t].lib].state = "loaded"
       /\ hk[t].result = << hk[t].lib, init_name(hk[t].req) >>
  /\ \E u \in Threads \ {"main"} : AtRunCall(u)

\* C16: a thread inside the hook (line 32, the append, included) holds the
\* lock of the runtime whose code made the call, and the hook is running in
\* that instance's copy of the shim; so no two threads are inside the hook of
\* one shim, or at the append to one registry, at once.
C16_HookUnderLock ==
  /\ \A t \in Threads :
       rpc[t] \in HookLines =>
         /\ gil[RuntimeOf(InstOf(t))] = t
         /\ hk[t].shim = find_shared_function_[InstOf(t)]
  /\ \A t, u \in Threads :
       (t # u /\ rpc[t] \in HookLines /\ rpc[u] \in HookLines) =>
         /\ hk[t].shim # hk[u].shim
         /\ InstOf(t) # InstOf(u)

\* A thread is at the append while another thread's run() on the same
\* instance waits for the lock.
C16_Witness ==
  \E t, u \in Threads \ {"main"} :
    /\ t # u
    /\ InstOf(t) = InstOf(u)
    /\ rpc[t] = "H32"
    /\ rpc[u] = "acquire"
    /\ gil[RuntimeOf(InstOf(t))] = t

----------------------------------------------------------------------------
(* The loader and the hook driven directly, once both instances are built:  *)
(* in SpecLoader a caller creates libraries, configures their chains and    *)
(* loads them; in SpecHook a caller rebinds the current-instance cells and  *)
(* calls the hook, in any order.                                            *)

\* Libraries the caller creates in SpecLoader.
MaxUserLibs == 1

\* Members per chain the caller configures.
MaxChain == 2

\* Calls of the hook in SpecHook.
MaxHookCalls == 2

\* The libraries of the two trees: three per instance.
TreeLibs == 3 * Cardinality(Instances)

ApiPhase == ~terminated /\ mpc = 3 /\ rpc["main"] = "idle"

ApiPaths == {"_regex.so", "dep.so"}

ApiRequests ==
  { [prefix |-> "PyInit", shortname |-> "_regex", pathname |-> "_regex.so"],
    [prefix |-> "PyInit", shortname |-> "dep", pathname |-> "dep.so"] }

\* The handles a caller can hold: the global one and the loaded libraries
\* (the runtime libraries of the trees, and those created since).
ApiHandles ==
  {GLOBAL} \cup {python_[i] : i \in Instances}
  \cup {id \in (TreeLibs + 1)..Len(libs) : libs[id].state = "loaded"}

\* The library being configured: the newest one, not yet loaded.
Configuring ==
  /\ Len(libs) > TreeLibs
  /\ libs[Len(libs)].state = "created"

ApiCreate(path) ==
  /\ ApiPhase /\ ~Configuring
  /\ Len(libs) < TreeLibs + MaxUserLibs
  /\ libs' = Append(libs, create(path))
  /\ UNCHANGED << env, mem, members, mpc, bpc, threadVars, terminated >>

ApiAdd(h) ==
  /\ ApiPhase /\ Configuring
  /\ Len(libs[Len(libs)].chain) < MaxChain
  /\ libs' = add_search_library(libs, Len(libs), h)
  /\ UNCHANGED << env, mem, members, mpc, bpc, threadVars, terminated >>

ApiLoad ==
  /\ ApiPhase /\ Configuring
  /\ libs' = load(libs, gp, Len(libs))
  /\ UNCHANGED << env, mem, members, mpc, bpc, threadVars, terminated >>

\* bind: the write of main.cpp:20-21, with any loaded private library.
ApiBind(i, h) ==
  /\ ApiPhase
  /\ h # GLOBAL
  /\ mem' = [mem EXCEPT ![<<find_shared_function_[i], "the_python_library">>]
                          = h]
  /\ everBound' =
       everBound \cup {<< <<find_shared_function_[i], "the_python_library">>,
                          h >>}
  /\ UNCHANGED << gp, libs, members, mpc, bpc, threadVars, terminated >>

\* A call of _PyImport_FindSharedFuncptr in the shim of instance i.
ApiCall(i, req) ==
  /\ ApiPhase
  /\ Len(libs) < TreeLibs + MaxHookCalls
  /\ rpc' = [rpc EXCEPT !["main"] = "H26"]
  /\ hk' = [hk EXCEPT !["main"] = [shim |-> find_shared_function_[i],
                                   req |-> req, lib |-> NULL,
                                   result |-> ABSENT]]
  /\ exc' = [exc EXCEPT !["main"] = NoError]
  /\ UNCHANGED << env, libs, mem, members, mpc, bpc, rinst, gil, extLoads,
                  terminated >>

\* The call returned its address to the caller.
ApiReturn ==
  /\ ~terminated /\ mpc = 3 /\ rpc["main"] = "exec"
  /\ rpc' = [rpc EXCEPT !["main"] = "idle"]
  /\ UNCHANGED << env, libs, mem, members, mpc, bpc, rinst, gil, hk, exc,
                  extLoads, terminated >>

\* The call threw, and the caller caught the exception.
ApiCatch ==
  /\ ~terminated /\ mpc = 3 /\ rpc["main"] = "throwing"
  /\ rpc' = [rpc EXCEPT !["main"] = "idle"]
  /\ UNCHANGED << env, libs, mem, members, mpc, bpc, rinst, gil, hk, exc,
                  extLoads, terminated >>

\* The static initialiser of the runner, importing no extension.
ApiInitDone == Stmt.op = "ctor" /\ ExecFinish("main")

\* The two constructors of main.cpp:55-56.
Build ==
  \/ Ctor11 \/ Ctor12 \/ Ctor13 \/ Ctor15 \/ Ctor16 \/ Ctor17 \/ Ctor18
  \/ Ctor20 \/ Ctor23 \/ Ctor24 \/ Ctor25 \/ Ctor26
  \/ ApiInitDone \/ GuardSaveThread \/ CtorEnd

NextLoader ==
  \/ Build
  \/ \E path \in ApiPaths : ApiCreate(path)
  \/ \E h \in ApiHandles : ApiAdd(h)
  \/ ApiLoad

SpecLoader == Init /\ [][NextLoader]_vars

NextHook ==
  \/ Build
  \/ \E i \in Instances : \E h \in ApiHandles : ApiBind(i, h)
  \/ \E i \in Instances : \E req \in ApiRequests : ApiCall(i, req)
  \/ Hook26("main") \/ Hook27("main") \/ Hook28("main") \/ Hook29("main")
  \/ Hook31("main") \/ Hook32("main") \/ Hook33("main")
  \/ ApiReturn \/ ApiCatch

SpecHook == Init /\ [][NextHook]_vars

\* C3: whatever binds came before, a hook call resolves against
\* GlobalLibrary and the library the cell names at the call, and nothing
\* else: its load() succeeds exactly when each import is defined by one of
\* the two, every import is bound to one of the two, and otherwise the call
\* fails with the LinkError of load() and returns no address.
C3_ResolvesAgainstCurrent ==
  \A t \in Threads :
    (rpc[t] \in {"H30", "H32", "H33", "throwing"} /\ hk[t].lib # NULL) =>
      LET lib == libs[hk[t].lib]
          imps == Imports(lib.path)
          Known(s) == Defines(GLOBAL, s) \/ Defines(CellOf(t), s)
      IN /\ lib.state \in {"loaded", "failed"}
         /\ lib.state = "loaded" <=> \A k \in 1..Len(imps) : Known(imps[k])
         /\ lib.state = "loaded" =>
              \A k \in 1..Len(imps) : lib.bind[k][1] \in {GLOBAL, CellOf(t)}
         /\ lib.state = "failed" =>
              /\ rpc[t] = "throwing"
              /\ exc[t].kind = "LinkError"
              /\ ~Known(exc[t].symbol)
              /\ hk[t].result = ABSENT

\* A hook call fails on regex_match although a library bound to the same
\* cell earlier, and since replaced, exports it.
C3_Witness ==
  /\ rpc["main"] = "throwing"
  /\ exc["main"] = LinkError("regex_match", "dep.so")
  /\ \E b \in everBound :
       /\ b[1] = << hk["main"].shim, "the_python_library" >>
       /\ b[2] # CellOf("main")
       /\ Defines(b[2], "regex_match")

\* C4: every import of a loaded library is bound to the definition of the
\* first member of its chain, in insertion order, that defines it, whatever
\* was appended after that member; and the runtime library, with the chain
\* <<hook shim, Global>>, has its extension-load entry point bound to its own
\* instance's shim.
C4_FirstAppendedWins ==
  /\ \A id \in 1..Len(libs) :
       libs[id].state = "loaded" =>
         \A k \in 1..Len(Imports(libs[id].path)) :
           LET s == Imports(libs[id].path)[k]
               definers == {j \in 1..Len(libs[id].chain) :
                              Defines(libs[id].chain[j], s)}
           IN /\ definers # {}
              /\ \E j \in definers :
                   /\ \A m \in definers : j <= m
                   /\ libs[id].bind[k] = << libs[id].chain[j], s >>
  /\ \A i \in Instances :
       (python_[i] # NULL /\ libs[python_[i]].state = "loaded") =>
         /\ libs[python_[i]].chain = << find_shared_function_[i], GLOBAL >>
         /\ BoundTo(libs, python_[i], "_PyImport_FindSharedFuncptr")
              = << find_shared_function_[i], "_PyImport_FindSharedFuncptr" >>

\* The global table defines the runtime's symbols too; a library whose chain
\* is <<b's runtime, Global>> is bound to b's definition, and a's runtime
\* library to a's shim although the global table defines the entry point too.
C4_Witness ==
  /\ gp
  /\ \E id \in (TreeLibs + 1)..Len(libs) :
       /\ libs[id].state = "loaded"
       /\ libs[id].chain = << python_["b"], GLOBAL >>
       /\ Defines(GLOBAL, "PyModule_Create")
       /\ libs[id].bind[1] = << python_["b"], "PyModule_Create" >>
  /\ Defines(GLOBAL, "_PyImport_FindSharedFuncptr")
  /\ BoundTo(libs, python_["a"], "_PyImport_FindSharedFuncptr")[1]
       = find_shared_function_["a"]

====
